---- MODULE Spec2Model ----
(***************************************************************************)
(* Model of origami/batch/core/mutex.py: the sqlite-backed DatabaseMutex   *)
(* (try_lock, unlock, scoped lock, clear_locks) used by several OS        *)
(* processes on one store, the retry helper run_db_operation, and the      *)
(* FileMutex and DummyMutex classes.                                       *)
(*                                                                         *)
(* Store semantics.  _connect sets dbapi_connection.isolation_level = None *)
(* (the driver never emits BEGIN) and registers "BEGIN EXCLUSIVE" on the   *)
(* engine's "begin" event, but no method ever opens a transaction          *)
(* (Connection.begin is never called), so every statement runs in sqlite   *)
(* autocommit mode: each row of the multi-row insert of try_lock is its    *)
(* own committed store transaction, and the DELETE of unlock is one.       *)
(* A store transaction is one atomic step of the model.                    *)
(***************************************************************************)
EXTENDS Integers, Sequences, FiniteSets, TLC

\* ---------------------------------------------------------------- bounds
NumPids  == 2
NumPaths == 2
MaxLen   == 2
MaxAge   == 1
MaxTime  == 2

\* ------------------------------------------------------ program constants
\* "if backoff > 8" and "0.1 * (2 ** backoff)"; delays are in tenths of a second.
RetryCap  == 8
BaseDelay == 1

\* The clock counts tenths of a second; timedelta(seconds=age) is age * Second.
Second == 10

\* "def __init__(self, path, timeout=1)": the busy timeout of the sqlite
\* connections (connect_args), in seconds.
Timeout == 1

Pids       == 1..NumPids
Paths      == 1..NumPaths
Processors == {"proc_a", "proc_b"}
PathSeqs   == UNION {[1..n -> Paths] : n \in 1..MaxLen}

\* The (processor, paths) arguments the callers use: every path sequence
\* (repeated paths included) for proc_a, the single path 1 for proc_b.
Requests ==
    {rq \in [processor : Processors, paths : PathSeqs] :
        rq.processor = "proc_a" \/ rq.paths = <<1>>}

Range(s) == {s[i] : i \in 1..Len(s)}

NoOp == [kind |-> "none", processor |-> "none", paths |-> <<>>, age |-> 0]

NoScope == [op |-> NoOp, success |-> "none"]

VARIABLES
    store,        \* rows of table "mutex"
    now,          \* datetime.datetime.now()
    pc,           \* position of each process
    op,           \* the call each process is in: kind and arguments
    idx,          \* next row of the multi-row insert
    backoff,      \* run_db_operation's backoff
    calls,        \* run_db_operation: number of times operation() was invoked
    sleeps,       \* run_db_operation: the arguments of time.sleep, in order
    failures,     \* run_db_operation: OperationalErrors raised by operation()
    exc,          \* exception raised by the last store statement of the call
    result,       \* outcome of the call
    success,      \* lock(): the value yielded to the body
    unlockCalls,  \* lock(): number of unlock calls made by the scope
    inserted,     \* paths whose row the current call has committed
    freeAtStart,  \* no requested pair was recorded when the insert started
    granted,      \* (pid, processor, path) granted by try_lock, not yet unlocked
    fileLocks,    \* FileMutex: the exclusive OS file locks held, as (path, pid)
    provider,     \* the class of the mutex object each process calls
    deadAtCall,   \* the processes that had terminated when the call started
    stamp,        \* the datetime.datetime.now() values perform() has read
    wakeAt,       \* the clock value at which the time.sleep in progress ends
    scope         \* the lock scope whose body is making a call of its own

vars == <<store, now, pc, op, idx, backoff, calls, sleeps, failures, exc, result,
          success, unlockCalls, inserted, freeAtStart, granted, fileLocks,
          provider, deadAtCall, stamp, wakeAt, scope>>

\* ------------------------------------------------------------- the store
Row(path, processor, pid, t) ==
    [path |-> path, processor |-> processor, pid |-> pid, time |-> t]

\* PrimaryKeyConstraint('path', 'processor'): the insert of a row raises
\* IntegrityError iff a row with the same (path, processor) exists.
ConflictNever(s, path, processor) == FALSE

ConflictPathOnly(s, path, processor) == \E r \in s : r.path = path

Conflict(s, path, processor) ==
    \E r \in s : r.path = path /\ r.processor = processor

\* WHERE clause of unlock's DELETE.
MatchesAnyProcessor(r, processor, paths, pid) ==
    r.path \in Range(paths) /\ r.pid = pid

MatchesAnyPid(r, processor, paths, pid) ==
    r.processor = processor /\ r.path \in Range(paths)

MatchesFirstPath(r, processor, paths, pid) ==
    r.processor = processor /\ r.path = paths[1] /\ r.pid = pid

Matches(r, processor, paths, pid) ==
    r.processor = processor /\ r.path \in Range(paths) /\ r.pid = pid

\* ------------------------------------------------------ run_db_operation
\* "if backoff > 8: raise e"
ExhaustedEarly(b) == b >= RetryCap

Exhausted(b) == b > RetryCap

\* "time.sleep(0.1 * (2 ** backoff))"
DelayLinear(b) == BaseDelay * (b + 1)

Delay(b) == BaseDelay * 2^b

\* ------------------------------------------------------------------ Init
Idle ==
    /\ now = 0
    /\ pc = [p \in Pids |-> "idle"]
    /\ op = [p \in Pids |-> NoOp]
    /\ idx = [p \in Pids |-> 1]
    /\ backoff = [p \in Pids |-> 0]
    /\ calls = [p \in Pids |-> 0]
    /\ sleeps = [p \in Pids |-> <<>>]
    /\ failures = [p \in Pids |-> 0]
    /\ exc = [p \in Pids |-> "none"]
    /\ result = [p \in Pids |-> "none"]
    /\ success = [p \in Pids |-> "none"]
    /\ unlockCalls = [p \in Pids |-> 0]
    /\ inserted = [p \in Pids |-> {}]
    /\ freeAtStart = [p \in Pids |-> FALSE]
    /\ fileLocks = {}
    /\ provider = [p \in Pids |-> "DatabaseMutex"]
    /\ deadAtCall = [p \in Pids |-> {}]
    /\ stamp = [p \in Pids |-> <<>>]
    /\ wakeAt = [p \in Pids |-> 0]
    /\ scope = [p \in Pids |-> NoScope]

\* A fresh store: the table is empty.
Init ==
    /\ store = {}
    /\ granted = {}
    /\ Idle

\* ----------------------------------------------------------------- calls
\* A process calls try_lock, unlock or lock with some processor and paths;
\* run_db_operation starts with backoff = 0 and invokes operation().
\* perform() starts: the statement it goes on to, and the clock values it
\* has read when the call step is over.  try_lock reads the clock once per
\* row while it builds the list (the first read is part of the step that
\* starts perform(), the others are ReadClock steps); clear_locks reads it
\* once unless age is 0; unlock does not read it.
StartPc(stmt, n) == IF stmt = "insert" /\ n > 1 THEN "build" ELSE stmt

FirstReads(stmt, age, t) ==
    IF stmt = "insert" \/ (stmt = "sweep" /\ age # 0) THEN <<t>> ELSE <<>>

CallWith(p, kind, start, requests) ==
    /\ pc[p] = "idle"
    /\ now <= MaxTime * Second
    /\ \E rq \in requests :
          /\ op' = [op EXCEPT ![p] = [kind |-> kind, processor |-> rq.processor,
                                       paths |-> rq.paths, age |-> 0]]
          /\ pc' = [pc EXCEPT ![p] = StartPc(start, Len(rq.paths))]
    /\ calls' = [calls EXCEPT ![p] = 1]
    /\ deadAtCall' = [deadAtCall EXCEPT ![p] = {q \in Pids : pc[q] = "dead"}]
    /\ stamp' = [stamp EXCEPT ![p] = FirstReads(start, 0, now)]
    /\ UNCHANGED <<store, now, fileLocks, provider, idx, backoff, sleeps,
                   failures, exc, result, success, unlockCalls, inserted,
                   freeAtStart, granted, wakeAt, scope>>

Call(p, kind, start) == CallWith(p, kind, start, Requests)

call_try_lock(p) == Call(p, "try_lock", "insert")

call_unlock(p) == Call(p, "unlock", "delete")

call_lock(p) == Call(p, "lock", "insert")

\* A process calls clear_locks(age).
call_clear_locks(p) ==
    /\ pc[p] = "idle"
    /\ now <= MaxTime * Second
    /\ \E age \in 0..MaxAge :
          /\ op' = [op EXCEPT ![p] = [kind |-> "clear_locks",
                                       processor |-> "none",
                                       paths |-> <<>>, age |-> age]]
          /\ stamp' = [stamp EXCEPT ![p] = FirstReads("sweep", age, now)]
    /\ pc' = [pc EXCEPT ![p] = "sweep"]
    /\ calls' = [calls EXCEPT ![p] = 1]
    /\ deadAtCall' = [deadAtCall EXCEPT ![p] = {q \in Pids : pc[q] = "dead"}]
    /\ UNCHANGED <<store, now, fileLocks, provider, idx, backoff, sleeps,
                   failures, exc, result, success, unlockCalls, inserted,
                   freeAtStart, granted, wakeAt, scope>>

\* The body of a lock scope calls try_lock itself (as the module's __main__
\* block does); the scope is resumed when the call is over.
nested_try_lock(p, requests) ==
    /\ pc[p] = "body" /\ op[p].kind = "lock" /\ scope[p] = NoScope
    /\ now <= MaxTime * Second
    /\ scope' = [scope EXCEPT ![p] = [op |-> op[p], success |-> success[p]]]
    /\ \E rq \in requests :
          /\ op' = [op EXCEPT ![p] = [kind |-> "try_lock",
                                       processor |-> rq.processor,
                                       paths |-> rq.paths, age |-> 0]]
          /\ pc' = [pc EXCEPT ![p] = StartPc("insert", Len(rq.paths))]
    /\ stamp' = [stamp EXCEPT ![p] = FirstReads("insert", 0, now)]
    /\ calls' = [calls EXCEPT ![p] = 1]
    /\ idx' = [idx EXCEPT ![p] = 1]
    /\ backoff' = [backoff EXCEPT ![p] = 0]
    /\ sleeps' = [sleeps EXCEPT ![p] = <<>>]
    /\ failures' = [failures EXCEPT ![p] = 0]
    /\ exc' = [exc EXCEPT ![p] = "none"]
    /\ success' = [success EXCEPT ![p] = "none"]
    /\ inserted' = [inserted EXCEPT ![p] = {}]
    /\ freeAtStart' = [freeAtStart EXCEPT ![p] = FALSE]
    /\ deadAtCall' = [deadAtCall EXCEPT ![p] = {q \in Pids : pc[q] = "dead"}]
    /\ UNCHANGED <<store, now, fileLocks, provider, result, unlockCalls,
                   granted, wakeAt>>

\* perform() of try_lock reads datetime.datetime.now() for the next row of
\* the list it builds; conn.execute starts when every row has its time.
ReadClock(p) ==
    /\ pc[p] = "build"
    /\ stamp' = [stamp EXCEPT ![p] = Append(@, now)]
    /\ pc' = [pc EXCEPT ![p] = IF Len(stamp[p]) + 1 = Len(op[p].paths)
                                THEN "insert" ELSE "build"]
    /\ UNCHANGED <<store, now, op, idx, backoff, calls, sleeps, failures, exc,
                   result, success, unlockCalls, inserted, freeAtStart,
                   granted, fileLocks, provider, deadAtCall, wakeAt, scope>>

\* ------------------------------------------------------------- try_lock
\* try_lock has returned `value` ("true"/"false") or raised ("error").
\* Inside lock() a returned value is yielded to the body; an exception of
\* try_lock leaves lock() before its try block.
FinishTryLock(p, value) ==
    IF op[p].kind = "lock" /\ value # "error"
    THEN /\ pc' = [pc EXCEPT ![p] = "body"]
         /\ success' = [success EXCEPT ![p] = value]
         /\ UNCHANGED result
    ELSE /\ pc' = [pc EXCEPT ![p] = "done"]
         /\ result' = [result EXCEPT ![p] = value]
         /\ UNCHANGED success

\* run_db_operation after operation() raised OperationalError.
RetrySwallow(p) ==
    IF Exhausted(backoff[p])
    THEN /\ UNCHANGED <<backoff, idx, calls, sleeps, stamp, wakeAt>>
         /\ IF pc[p] = "insert"
            THEN FinishTryLock(p, "false")
            ELSE /\ pc' = [pc EXCEPT ![p] = "done"]
                 /\ result' = [result EXCEPT ![p] =
                                  IF op[p].kind = "lock" THEN @ ELSE "ok"]
                 /\ UNCHANGED success
    ELSE /\ sleeps' = [sleeps EXCEPT ![p] = Append(@, Delay(backoff[p]))]
         /\ wakeAt' = [wakeAt EXCEPT ![p] = now' + Delay(backoff[p])]
         /\ pc' = [pc EXCEPT ![p] = "sleep"]
         /\ UNCHANGED <<backoff, idx, calls, stamp, result, success>>

Retry(p) ==
    IF Exhausted(backoff[p])
    THEN \* raise e
         /\ UNCHANGED <<backoff, idx, calls, sleeps, stamp, wakeAt>>
         /\ IF pc[p] = "insert"
            THEN FinishTryLock(p, "error")
            ELSE /\ pc' = [pc EXCEPT ![p] = "done"]
                 /\ result' = [result EXCEPT ![p] = "error"]
                 /\ UNCHANGED success
    ELSE \* time.sleep(0.1 * (2 ** backoff)) is called, at the clock value
         \* the failed statement has left
         /\ sleeps' = [sleeps EXCEPT ![p] = Append(@, Delay(backoff[p]))]
         /\ wakeAt' = [wakeAt EXCEPT ![p] = now' + Delay(backoff[p])]
         /\ pc' = [pc EXCEPT ![p] = "sleep"]
         /\ UNCHANGED <<backoff, idx, calls, stamp, result, success>>

\* The statement perform() of the call in progress executes.
Statement(p) ==
    IF op[p].kind = "clear_locks" THEN "sweep"
    ELSE IF op[p].kind = "unlock" \/ unlockCalls[p] > 0 THEN "delete"
    ELSE "insert"

\* time.sleep returns, not before the clock has reached the end of the
\* delay; then "backoff += 1" and operation() is invoked again: perform()
\* starts anew and reads the clock as it is now.
Wake(p) ==
    /\ pc[p] = "sleep"
    /\ now' = IF now < wakeAt[p] THEN wakeAt[p] ELSE now
    /\ wakeAt' = [wakeAt EXCEPT ![p] = 0]
    /\ backoff' = [backoff EXCEPT ![p] = @ + 1]
    /\ calls' = [calls EXCEPT ![p] = @ + 1]
    /\ idx' = [idx EXCEPT ![p] = 1]
    /\ stamp' = [stamp EXCEPT ![p] = FirstReads(Statement(p), op[p].age, now')]
    /\ pc' = [pc EXCEPT ![p] = StartPc(Statement(p), Len(op[p].paths))]
    /\ UNCHANGED <<store, op, sleeps, failures, exc, result, success,
                   unlockCalls, inserted, freeAtStart, granted, fileLocks,
                   provider, deadAtCall, scope>>

\* perform() of try_lock on IntegrityError: locked = False, returned through
\* run_db_operation (IntegrityError is no OperationalError).
OnIntegrityErrorRetried(p) == Retry(p)

OnIntegrityError(p) ==
    /\ FinishTryLock(p, "false")
    /\ UNCHANGED <<idx, backoff, calls, sleeps, stamp, wakeAt>>

\* One row of conn.execute(insert, [rows]); each row is committed on its own.
\* The time of a row is the one perform() read for it while it built the
\* list, before conn.execute started.
InsertRow(p) ==
    /\ pc[p] = "insert"
    /\ UNCHANGED <<now, fileLocks, provider, op, failures, unlockCalls,
                   deadAtCall, scope>>
    /\ LET processor == op[p].processor
           paths     == op[p].paths
           path      == paths[idx[p]]
       IN  /\ freeAtStart' =
                 IF idx[p] = 1
                 THEN [freeAtStart EXCEPT ![p] =
                          \A q \in Range(paths) : ~Conflict(store, q, processor)]
                 ELSE freeAtStart
           /\ IF Conflict(store, path, processor)
              THEN /\ exc' = [exc EXCEPT ![p] = "IntegrityError"]
                   /\ OnIntegrityError(p)
                   /\ UNCHANGED <<store, inserted, granted, deadAtCall>>
              ELSE /\ store' = store \cup {Row(path, processor, p, stamp[p][idx[p]])}
                   /\ inserted' = [inserted EXCEPT ![p] = @ \cup {path}]
                   /\ exc' = [exc EXCEPT ![p] = "none"]
                   /\ UNCHANGED <<backoff, calls, sleeps, stamp, wakeAt>>
                   /\ IF idx[p] = Len(paths)
                      THEN \* locked = True
                           /\ FinishTryLock(p, "true")
                           /\ granted' = granted \cup
                                 {[pid |-> p, processor |-> processor, path |-> q] :
                                     q \in Range(paths)}
                           /\ UNCHANGED idx
                      ELSE /\ idx' = [idx EXCEPT ![p] = @ + 1]
                           /\ UNCHANGED <<pc, result, success, granted>>

\* The statement a process is about to execute raises OperationalError:
\* "database is locked", raised when the store has stayed locked for the
\* busy timeout of the connection, during which the process waits; or an
\* operational error the store raises at once (disk I/O error and the like).
StoreFault(p) ==
    /\ pc[p] \in {"insert", "delete", "sweep"}
    /\ \E wait \in {0, Timeout * Second} : now' = now + wait
    /\ exc' = [exc EXCEPT ![p] = "OperationalError"]
    /\ failures' = [failures EXCEPT ![p] = @ + 1]
    /\ Retry(p)
    /\ UNCHANGED <<store, fileLocks, provider, op, unlockCalls, inserted,
                   freeAtStart, granted, deadAtCall, scope>>

\* --------------------------------------------------------------- unlock
\* The DELETE of unlock.
DeleteRowsKeep(p) ==
    /\ pc[p] = "delete"
    /\ exc' = [exc EXCEPT ![p] = "none"]
    /\ pc' = [pc EXCEPT ![p] = "done"]
    /\ result' = [result EXCEPT ![p] = IF op[p].kind = "lock" THEN @ ELSE "ok"]
    /\ UNCHANGED <<store, granted, now, fileLocks, provider, op, idx, backoff,
                   calls, sleeps, failures, success, unlockCalls, inserted,
                   freeAtStart, deadAtCall, stamp, wakeAt, scope>>

DeleteRows(p) ==
    /\ pc[p] = "delete"
    /\ store' = {r \in store : ~Matches(r, op[p].processor, op[p].paths, p)}
    /\ granted' = {g \in granted :
                      ~(g.pid = p /\ g.processor = op[p].processor
                        /\ g.path \in Range(op[p].paths))}
    /\ exc' = [exc EXCEPT ![p] = "none"]
    /\ pc' = [pc EXCEPT ![p] = "done"]
    /\ result' = [result EXCEPT ![p] = IF op[p].kind = "lock" THEN @ ELSE "ok"]
    /\ UNCHANGED <<now, fileLocks, provider, op, idx, backoff, calls, sleeps,
                   failures, success, unlockCalls, inserted, freeAtStart,
                   deadAtCall, stamp, wakeAt, scope>>

\* ---------------------------------------------------------- clear_locks
\* The rows the DELETE of clear_locks(age) removes: all of them when age is
\* 0, else those with time < t - age seconds, t being the clock value read
\* while perform() built the statement.
SweptAgeOnly(s, age, t) == {r \in s : r.time < t - age * Second}

SweptInclusive(s, age, t) ==
    IF age = 0 THEN s ELSE {r \in s : r.time <= t - age * Second}

Swept(s, age, t) ==
    IF age = 0 THEN s ELSE {r \in s : r.time < t - age * Second}

SweepRows(p) ==
    /\ pc[p] = "sweep"
    /\ LET gone == Swept(store, op[p].age,
                         IF stamp[p] = <<>> THEN 0 ELSE stamp[p][1])
       IN  /\ store' = store \ gone
           /\ granted' = {g \in granted :
                            \E r \in store \ gone :
                               r.path = g.path /\ r.processor = g.processor
                               /\ r.pid = g.pid}
    /\ exc' = [exc EXCEPT ![p] = "none"]
    /\ pc' = [pc EXCEPT ![p] = "done"]
    /\ result' = [result EXCEPT ![p] = "ok"]
    /\ UNCHANGED <<now, fileLocks, provider, op, idx, backoff, calls, sleeps,
                   failures, success, unlockCalls, inserted, freeAtStart,
                   deadAtCall, stamp, wakeAt, scope>>

\* ----------------------------------------------------------------- lock
\* unlock is called from the finally clause of lock: a new run_db_operation.
StartUnlock(p) ==
    /\ pc' = [pc EXCEPT ![p] = "delete"]
    /\ unlockCalls' = [unlockCalls EXCEPT ![p] = @ + 1]
    /\ backoff' = [backoff EXCEPT ![p] = 0]
    /\ calls' = [calls EXCEPT ![p] = 1]
    /\ sleeps' = [sleeps EXCEPT ![p] = <<>>]
    /\ failures' = [failures EXCEPT ![p] = 0]
    /\ exc' = [exc EXCEPT ![p] = "none"]

\* The body of the with-statement ends, normally ("ok") or with an exception
\* ("body_exc"); the finally clause calls unlock iff success.
BodyExit(p, how) ==
    /\ pc[p] = "body"
    /\ result' = [result EXCEPT ![p] = how]
    /\ IF success[p] = "true"
       THEN StartUnlock(p)
       ELSE /\ pc' = [pc EXCEPT ![p] = "done"]
            /\ UNCHANGED <<unlockCalls, backoff, calls, sleeps, failures,
                           exc>>
    /\ UNCHANGED <<store, now, fileLocks, provider, op, idx, success,
                   inserted, freeAtStart, granted, deadAtCall, stamp, wakeAt,
                   scope>>

BodyReturn(p) == BodyExit(p, "ok")

BodyRaise(p) == BodyExit(p, "body_exc")

\* The call is over; the process goes on.
Return(p) ==
    /\ pc[p] = "done"
    /\ IF scope[p] = NoScope
       THEN /\ pc' = [pc EXCEPT ![p] = "idle"]
            /\ op' = [op EXCEPT ![p] = NoOp]
            /\ success' = [success EXCEPT ![p] = "none"]
       ELSE \* the call was made by the body of a lock scope
            /\ pc' = [pc EXCEPT ![p] = "body"]
            /\ op' = [op EXCEPT ![p] = scope[p].op]
            /\ success' = [success EXCEPT ![p] = scope[p].success]
    /\ scope' = [scope EXCEPT ![p] = NoScope]
    /\ idx' = [idx EXCEPT ![p] = 1]
    /\ backoff' = [backoff EXCEPT ![p] = 0]
    /\ calls' = [calls EXCEPT ![p] = 0]
    /\ sleeps' = [sleeps EXCEPT ![p] = <<>>]
    /\ failures' = [failures EXCEPT ![p] = 0]
    /\ exc' = [exc EXCEPT ![p] = "none"]
    /\ result' = [result EXCEPT ![p] = "none"]
    /\ unlockCalls' = [unlockCalls EXCEPT ![p] = 0]
    /\ inserted' = [inserted EXCEPT ![p] = {}]
    /\ freeAtStart' = [freeAtStart EXCEPT ![p] = FALSE]
    /\ deadAtCall' = [deadAtCall EXCEPT ![p] = {}]
    /\ stamp' = [stamp EXCEPT ![p] = <<>>]
    /\ UNCHANGED <<store, now, fileLocks, provider, granted, wakeAt>>

\* -------------------------------------------------------- specifications
\* Spec: the processes call try_lock, unlock and lock in any interleaving of
\* their store statements, on a store that raises no transient error.
Next ==
    \E p \in Pids :
        \/ call_try_lock(p)
        \/ call_unlock(p)
        \/ call_lock(p)
        \/ ReadClock(p)
        \/ InsertRow(p)
        \/ DeleteRows(p)
        \/ BodyReturn(p)
        \/ BodyRaise(p)
        \/ Return(p)

Spec == Init /\ [][Next]_vars

\* SpecFaults: process 1 makes its calls (clear_locks included) on a store
\* that may raise the transient error on any statement, while the last
\* process holds some locks it was granted earlier.  The clock advances
\* while the process sleeps between attempts; the process starts no call
\* after one that has slept (calls start at clock 0).
Pairs ==
    UNION {{[processor |-> rq.processor, path |-> q] : q \in Range(rq.paths)} :
              rq \in Requests}

InitFaults ==
    /\ \E S \in SUBSET Pairs :
          /\ store = {Row(pr.path, pr.processor, NumPids, 0) : pr \in S}
          /\ granted = {[pid |-> NumPids, processor |-> pr.processor,
                         path |-> pr.path] : pr \in S}
    /\ Idle

NextFaults ==
    \E p \in {1} :
        \/ /\ now = 0
           /\ \/ call_try_lock(p)
              \/ call_unlock(p)
              \/ call_lock(p)
              \/ call_clear_locks(p)
        \/ ReadClock(p)
        \/ InsertRow(p)
        \/ StoreFault(p)
        \/ Wake(p)
        \/ DeleteRows(p)
        \/ SweepRows(p)
        \/ BodyReturn(p)
        \/ BodyRaise(p)
        \/ Return(p)

SpecFaults == InitFaults /\ [][NextFaults]_vars

\* SpecScenario: the scenario of the module's __main__ block, run by every
\* process on a store that starts empty: a process opens a lock scope on
\* one path, calls try_lock inside the body, and calls try_lock and unlock
\* outside a scope.
ScenarioRequests == {rq \in Requests : Len(rq.paths) = 1}

scenario_lock(p) == CallWith(p, "lock", "insert", ScenarioRequests)

scenario_retry(p) == nested_try_lock(p, ScenarioRequests)

scenario_try_lock(p) == CallWith(p, "try_lock", "insert", ScenarioRequests)

scenario_unlock(p) == CallWith(p, "unlock", "delete", ScenarioRequests)

NextScenario ==
    \E p \in Pids :
        \/ scenario_lock(p)
        \/ scenario_retry(p)
        \/ scenario_try_lock(p)
        \/ scenario_unlock(p)
        \/ InsertRow(p)
        \/ DeleteRows(p)
        \/ BodyReturn(p)
        \/ BodyRaise(p)
        \/ Return(p)

SpecScenario == Init /\ [][NextScenario]_vars

\* ------------------------------------------------- time and process death
\* The wall clock read by datetime.datetime.now() advances by a second.
Tick ==
    /\ now + Second <= MaxTime * Second
    /\ now' = now + Second
    /\ UNCHANGED <<store, pc, op, idx, backoff, calls, sleeps, failures, exc,
                   result, success, unlockCalls, inserted, freeAtStart,
                   granted, fileLocks, provider, deadAtCall, stamp, wakeAt,
                   scope>>

\* The OS process p terminates at any point without calling unlock: nothing
\* in the store changes (no method is run at exit), and the pid is not used
\* again; a restarted actor is another pid.
Crash(p) ==
    /\ pc[p] # "dead"
    /\ pc' = [pc EXCEPT ![p] = "dead"]
    /\ op' = [op EXCEPT ![p] = NoOp]
    /\ idx' = [idx EXCEPT ![p] = 1]
    /\ backoff' = [backoff EXCEPT ![p] = 0]
    /\ calls' = [calls EXCEPT ![p] = 0]
    /\ sleeps' = [sleeps EXCEPT ![p] = <<>>]
    /\ failures' = [failures EXCEPT ![p] = 0]
    /\ exc' = [exc EXCEPT ![p] = "none"]
    /\ result' = [result EXCEPT ![p] = "none"]
    /\ success' = [success EXCEPT ![p] = "none"]
    /\ unlockCalls' = [unlockCalls EXCEPT ![p] = 0]
    /\ inserted' = [inserted EXCEPT ![p] = {}]
    /\ freeAtStart' = [freeAtStart EXCEPT ![p] = FALSE]
    /\ deadAtCall' = [deadAtCall EXCEPT ![p] = {}]
    /\ stamp' = [stamp EXCEPT ![p] = <<>>]
    /\ wakeAt' = [wakeAt EXCEPT ![p] = 0]
    /\ scope' = [scope EXCEPT ![p] = NoScope]
    /\ UNCHANGED <<store, now, fileLocks, provider, granted>>

\* SpecAdmin: the processes call try_lock, unlock (with ascending
\* paths) and clear_locks in any interleaving of their store statements
\* while the clock advances and processes terminate.
AdminRequests ==
    {rq \in Requests : \A i, j \in 1..Len(rq.paths) : i < j => rq.paths[i] < rq.paths[j]}

admin_try_lock(p) == CallWith(p, "try_lock", "insert", AdminRequests)

admin_unlock(p) == CallWith(p, "unlock", "delete", AdminRequests)

NextAdmin ==
    \/ Tick
    \/ \E p \in Pids :
          \/ admin_try_lock(p)
          \/ admin_unlock(p)
          \/ call_clear_locks(p)
          \/ ReadClock(p)
          \/ InsertRow(p)
          \/ DeleteRows(p)
          \/ SweepRows(p)
          \/ Return(p)
          \/ Crash(p)

SpecAdmin == Init /\ [][NextAdmin]_vars

\* ------------------------------------------------- FileMutex, DummyMutex
\* The methods each class defines.
Offers ==
    [DatabaseMutex |-> {"clear_locks", "try_lock", "unlock", "lock"},
     FileMutex     |-> {"lock"},
     DummyMutex    |-> {"try_lock", "unlock", "lock"}]

\* The paths arguments given to FileMutex and DummyMutex: the empty list too.
AnyPathSeqs == {<<>>} \cup PathSeqs

\* A process calls mutex.<method>(processor, paths) on a FileMutex or a
\* DummyMutex; a method the class does not define raises AttributeError.
CallProvider(p) ==
    /\ pc[p] = "idle"
    /\ \E pr \in {"FileMutex", "DummyMutex"}, m \in {"try_lock", "unlock", "lock"},
          processor \in Processors, paths \in AnyPathSeqs :
          /\ provider' = [provider EXCEPT ![p] = pr]
          /\ op' = [op EXCEPT ![p] = [kind |-> m, processor |-> processor,
                                       paths |-> paths, age |-> 0]]
          /\ IF m \in Offers[pr]
             THEN /\ pc' = [pc EXCEPT ![p] = "enter"]
                  /\ UNCHANGED result
             ELSE /\ pc' = [pc EXCEPT ![p] = "done"]
                  /\ result' = [result EXCEPT ![p] = "AttributeError"]
    /\ deadAtCall' = [deadAtCall EXCEPT ![p] = {q \in Pids : pc[q] = "dead"}]
    /\ UNCHANGED <<store, now, fileLocks, idx, backoff, calls, sleeps,
                   failures, exc, success, unlockCalls, inserted, freeAtStart,
                   granted, stamp, wakeAt, scope>>

\* "if len(paths) != 1: raise RuntimeError(...)", run when the with-statement
\* enters the scope.
FileEnterAnyLength(p) ==
    /\ pc[p] = "enter" /\ provider[p] = "FileMutex"
    /\ IF Len(op[p].paths) = 0
       THEN /\ pc' = [pc EXCEPT ![p] = "done"]
            /\ result' = [result EXCEPT ![p] = "RuntimeError"]
       ELSE /\ pc' = [pc EXCEPT ![p] = "acquire"]
            /\ UNCHANGED result
    /\ UNCHANGED <<store, now, fileLocks, provider, op, idx, backoff, calls,
                   sleeps, failures, exc, success, unlockCalls, inserted,
                   freeAtStart, granted, deadAtCall, stamp, wakeAt, scope>>

FileEnter(p) ==
    /\ pc[p] = "enter" /\ provider[p] = "FileMutex"
    /\ IF Len(op[p].paths) # 1
       THEN /\ pc' = [pc EXCEPT ![p] = "done"]
            /\ result' = [result EXCEPT ![p] = "RuntimeError"]
       ELSE /\ pc' = [pc EXCEPT ![p] = "acquire"]
            /\ UNCHANGED result
    /\ UNCHANGED <<store, now, fileLocks, provider, op, idx, backoff, calls,
                   sleeps, failures, exc, success, unlockCalls, inserted,
                   freeAtStart, granted, deadAtCall, stamp, wakeAt, scope>>

\* The exclusive OS lock of a file is held by at most one open file.
FileLocked(locks, path) == \E l \in locks : l.path = path

\* portalocker.Lock(paths[0], "r", flags=LOCK_EX, timeout=1,
\* fail_when_locked=True).__enter__(): the flags carry no LOCK_NB, so the
\* lock call waits while the file is locked by another open file (timeout
\* and fail_when_locked act on a refused non-blocking call only, and
\* nothing is refused); when the lock is taken True is yielded.
FileAcquire(p) ==
    /\ pc[p] = "acquire"
    /\ IF FileLocked(fileLocks, op[p].paths[1])
       THEN /\ pc' = [pc EXCEPT ![p] = "blocked"]
            /\ UNCHANGED <<fileLocks, success>>
       ELSE /\ fileLocks' = fileLocks \cup {[path |-> op[p].paths[1], pid |-> p]}
            /\ success' = [success EXCEPT ![p] = "true"]
            /\ pc' = [pc EXCEPT ![p] = "body"]
    /\ UNCHANGED <<store, now, provider, op, idx, backoff, calls, sleeps,
                   failures, exc, result, unlockCalls, inserted, freeAtStart,
                   granted, deadAtCall, stamp, wakeAt, scope>>

\* The file has been unlocked by its holder: the waiting lock call returns
\* with the lock and True is yielded.
FileGrant(p) ==
    /\ pc[p] = "blocked"
    /\ ~FileLocked(fileLocks, op[p].paths[1])
    /\ fileLocks' = fileLocks \cup {[path |-> op[p].paths[1], pid |-> p]}
    /\ success' = [success EXCEPT ![p] = "true"]
    /\ pc' = [pc EXCEPT ![p] = "body"]
    /\ UNCHANGED <<store, now, provider, op, idx, backoff, calls, sleeps,
                   failures, exc, result, unlockCalls, inserted, freeAtStart,
                   granted, deadAtCall, stamp, wakeAt, scope>>

\* The body of the with-statement ends: normally ("ok"), with an exception
\* ("body_exc"), or with an exception of the classes AlreadyLocked /
\* LockException ("body_lock_exc").  Leaving the portalocker.Lock block
\* releases the OS lock.  A "body_lock_exc" thrown at "yield True" is
\* caught by the except clause, which yields a second time: the context
\* manager raises RuntimeError (generator didn't stop after throw()).
FileBodyExit(p, how) ==
    /\ pc[p] = "body" /\ provider[p] = "FileMutex"
    /\ fileLocks' = IF success[p] = "true"
                    THEN fileLocks \ {[path |-> op[p].paths[1], pid |-> p]}
                    ELSE fileLocks
    /\ result' = [result EXCEPT ![p] =
                     IF how = "body_lock_exc" /\ success[p] = "true"
                     THEN "RuntimeError" ELSE how]
    /\ pc' = [pc EXCEPT ![p] = "done"]
    /\ UNCHANGED <<store, now, provider, op, idx, backoff, calls, sleeps,
                   failures, exc, success, unlockCalls, inserted, freeAtStart,
                   granted, deadAtCall, stamp, wakeAt, scope>>

FileBodyReturn(p) == FileBodyExit(p, "ok")

FileBodyRaise(p) == FileBodyExit(p, "body_exc")

FileBodyRaiseLockError(p) == FileBodyExit(p, "body_lock_exc")

\* DummyMutex: try_lock returns True, unlock does nothing, lock yields True.
DummyRun(p) ==
    /\ pc[p] = "enter" /\ provider[p] = "DummyMutex"
    /\ IF op[p].kind = "lock"
       THEN /\ pc' = [pc EXCEPT ![p] = "body"]
            /\ success' = [success EXCEPT ![p] = "true"]
            /\ UNCHANGED result
       ELSE /\ pc' = [pc EXCEPT ![p] = "done"]
            /\ result' = [result EXCEPT ![p] =
                             IF op[p].kind = "try_lock" THEN "true" ELSE "ok"]
            /\ UNCHANGED success
    /\ UNCHANGED <<store, now, fileLocks, provider, op, idx, backoff, calls,
                   sleeps, failures, exc, unlockCalls, inserted, freeAtStart,
                   granted, deadAtCall, stamp, wakeAt, scope>>

DummyBodyExit(p) ==
    /\ pc[p] = "body" /\ provider[p] = "DummyMutex"
    /\ \E how \in {"ok", "body_exc"} : result' = [result EXCEPT ![p] = how]
    /\ pc' = [pc EXCEPT ![p] = "done"]
    /\ UNCHANGED <<store, now, fileLocks, provider, op, idx, backoff, calls,
                   sleeps, failures, exc, success, unlockCalls, inserted,
                   freeAtStart, granted, deadAtCall, stamp, wakeAt, scope>>

\* SpecProviders: the processes use FileMutex and DummyMutex objects.
NextProviders ==
    \E p \in Pids :
        \/ CallProvider(p)
        \/ FileEnter(p)
        \/ FileAcquire(p)
        \/ FileGrant(p)
        \/ FileBodyReturn(p)
        \/ FileBodyRaise(p)
        \/ FileBodyRaiseLockError(p)
        \/ DummyRun(p)
        \/ DummyBodyExit(p)
        \/ Return(p)

SpecProviders == Init /\ [][NextProviders]_vars

TypeOK ==
    /\ pc \in [Pids -> {"idle", "insert", "delete", "sweep", "body", "done",
                        "dead", "enter", "acquire", "blocked", "build",
                        "sleep"}]
    /\ provider \in [Pids -> {"DatabaseMutex", "FileMutex", "DummyMutex"}]
    /\ deadAtCall \in [Pids -> SUBSET Pids]
    /\ \A q \in Pids : Len(stamp[q]) <= MaxLen
    /\ \A l \in fileLocks : l.path \in Paths /\ l.pid \in Pids
    /\ backoff \in [Pids -> 0..(RetryCap + 1)]
\* ------------------------------------------------------ claim vocabulary
\* try_lock called by p (directly or from lock) has returned `value`.
TryLockReturned(p, value) ==
    \/ op[p].kind = "try_lock" /\ pc[p] = "done" /\ result[p] = value
    \/ op[p].kind = "lock" /\ pc[p] = "body" /\ success[p] = value

\* The step in which try_lock of p returns true.
GrantStep(p) ==
    /\ pc[p] = "insert"
    /\ \/ pc'[p] = "done" /\ result'[p] = "true"
       \/ pc'[p] = "body" /\ success'[p] = "true"

\* The step in which the DELETE of unlock called by p is executed.
DeleteStep(p) == pc[p] = "delete" /\ pc'[p] = "done" /\ result'[p] # "error"

Held(processor, path) ==
    \E g \in granted : g.processor = processor /\ g.path = path

Injective(s) == \A i, j \in 1..Len(s) : s[i] = s[j] => i = j

\* C1 -- Mutual exclusion: a (processor, path) pair is granted to at most one
\* try_lock at a time; every granted pair is recorded in the store under the
\* holder's pid, and while it is granted no try_lock whose paths contain the
\* path (by any process, the holder included) returns true.
C1_MutualExclusion ==
    /\ [](\A g \in granted :
             /\ \E r \in store : r.path = g.path /\ r.processor = g.processor
                                 /\ r.pid = g.pid
             /\ \A h \in granted :
                   (h.processor = g.processor /\ h.path = g.path) => h = g)
    /\ [][\A p \in Pids :
             GrantStep(p) =>
                \A q \in Range(op[p].paths) : ~Held(op[p].processor, q)]_vars

\* One process holds a pair while a try_lock asking for it has returned false.
C1_Witness ==
    \E g \in granted, p \in Pids :
        /\ TryLockReturned(p, "false")
        /\ op[p].processor = g.processor
        /\ g.path \in Range(op[p].paths)

\* C2 -- All-or-nothing: a try_lock that returns false because a requested
\* pair was already recorded has left no row of its own in the store.
C2_AllOrNothing ==
    \A p \in Pids :
        (TryLockReturned(p, "false") /\ ~freeAtStart[p]) => inserted[p] = {}
\* The scope of lock called by p has exited (its finally clause is over).
ScopeExited(p) == op[p].kind = "lock" /\ pc[p] = "done" /\ success[p] # "none"

OwnRows(p) ==
    {r \in store : r.pid = p /\ r.processor = op[p].processor
                   /\ r.path \in Range(op[p].paths)}

\* The body is entered with the boolean try_lock returned, and a scope that
\* has exited has called unlock once if that boolean was true, never if false.
ScopeUnlockIffAcquired ==
    \A p \in Pids :
        /\ pc[p] = "body" => success[p] \in {"true", "false"}
        /\ ScopeExited(p) =>
              unlockCalls[p] = IF success[p] = "true" THEN 1 ELSE 0
        /\ (op[p].kind = "lock" /\ success[p] # "true") => unlockCalls[p] = 0

\* C3 -- Scoped acquisition: unlock is called exactly once on exit
\* iff try_lock returned true, and after an acquired scope has exited no
\* record inserted by it remains.
C3_ScopedRelease ==
    /\ ScopeUnlockIffAcquired
    /\ \A p \in Pids :
          (ScopeExited(p) /\ success[p] = "true") => OwnRows(p) = {}

\* C4 -- Process-scoped unlock: the DELETE of unlock called by process p
\* removes no record whose pid differs from p; every such record is still
\* present afterwards and still makes an insert for its pair fail.
C4_ProcessScopedUnlock ==
    [][\A p \in Pids :
          DeleteStep(p) =>
             \A r \in store :
                r.pid # p => (r \in store' /\ Conflict(store', r.path, r.processor))]_vars

\* unlock has been executed by a process for a processor and path recorded
\* under another pid, and that record is still there.
C4_Witness ==
    \E p \in Pids, r \in store :
        /\ op[p].kind = "unlock" /\ pc[p] = "done" /\ result[p] = "ok"
        /\ r.pid # p /\ r.processor = op[p].processor
        /\ r.path \in Range(op[p].paths)

\* C5 -- Round-trip: a successful try_lock adds only the caller's rows for
\* the requested paths, and when the process that was granted (p, S) executes
\* unlock(p, S), exactly those rows are removed: every other record is left
\* as it was and every pair of the request is free again, so that a
\* try_lock(p, S) by any process finds no conflict.
C5_RoundTrip ==
    [][\A p \in Pids :
          LET processor == op[p].processor
              paths     == op[p].paths
              mine      == {Row(paths[i], processor, p, stamp[p][i]) :
                               i \in DOMAIN stamp[p]}
          IN  /\ (pc[p] = "insert" /\ inserted'[p] # inserted[p]) =>
                    (store \subseteq store' /\ store' # store /\ store' \ store \subseteq mine)
              /\ (DeleteStep(p) /\ \A q \in Range(paths) :
                       [pid |-> p, processor |-> processor, path |-> q] \in granted)
                 => /\ store' = {r \in store :
                                   ~(r.processor = processor /\ r.path \in Range(paths))}
                    /\ Cardinality(store') = Cardinality(store) - Cardinality(Range(paths))
                    /\ \A q \in Range(paths) : ~Conflict(store', q, processor)]_vars

\* A scope that was granted two paths has released them with unlock.
C5_Witness ==
    \E p \in Pids :
        /\ ScopeExited(p) /\ success[p] = "true" /\ result[p] = "ok"
        /\ Len(op[p].paths) = 2
        /\ OwnRows(p) = {}
        /\ store # {}
\* C6 -- Result of try_lock against a reference: for pairwise distinct paths
\* and no transient error, try_lock returns true iff no requested pair was
\* recorded when its insert was serialized (started), and when it has
\* returned true the store holds one row per requested path under the
\* caller's pid.
C6_ResultMatchesReference ==
    \A p \in Pids :
        (Injective(op[p].paths) /\ failures[p] = 0) =>
            /\ TryLockReturned(p, "true") =>
                  (freeAtStart[p] /\ \A i \in DOMAIN op[p].paths :
                        Row(op[p].paths[i], op[p].processor, p, stamp[p][i])
                           \in store)
            /\ TryLockReturned(p, "false") => ~freeAtStart[p]

\* C7 -- Contention is a value and is never retried: the execution of
\* perform that hits the uniqueness violation is the last one, try_lock
\* returns false from it and no exception reaches the caller; every
\* execution but the first and every sleep of the call answers a transient
\* failure, so that without one there is exactly one execution and no sleep.
C7_ContentionNotRetried ==
    \A p \in Pids :
        exc[p] = "IntegrityError" =>
            /\ TryLockReturned(p, "false") \/ (ScopeExited(p) /\ success[p] = "false")
            /\ result[p] # "error"
            /\ calls[p] = failures[p] + 1
            /\ Len(sleeps[p]) = failures[p]

\* try_lock hit a record of another process at its first and only execution.
C7_Witness ==
    \E p \in Pids :
        /\ exc[p] = "IntegrityError" /\ op[p].kind = "try_lock"
        /\ result[p] = "false" /\ calls[p] = 1 /\ sleeps[p] = <<>>
        /\ inserted[p] = {}

\* C8 -- Transient failures are never reported as "not acquired": a call
\* ends with the store's error exactly when operation() raised it on every
\* one of its executions up to the retry cap; try_lock returns false only
\* from a uniqueness violation; a scope whose try_lock raised has not
\* entered the body and has not called unlock.
C8_TransientErrorsPropagate ==
    \A p \in Pids :
        /\ result[p] = "error" =>
              (pc[p] = "done" /\ exc[p] = "OperationalError"
               /\ failures[p] = calls[p])
        /\ (pc[p] \in {"insert", "delete", "sweep"} /\ backoff[p] > 0) =>
              failures[p] = calls[p] - 1
        /\ failures[p] > RetryCap + 1 => (pc[p] = "done" /\ result[p] = "error")
        /\ TryLockReturned(p, "false") => exc[p] = "IntegrityError"
        /\ (op[p].kind = "lock" /\ result[p] = "error" /\ unlockCalls[p] = 0) =>
              success[p] = "none"
        /\ (op[p].kind = "lock" /\ success[p] = "none") =>
              (pc[p] # "body" /\ unlockCalls[p] = 0)

\* The try_lock of a scope has raised the store's error.
C8_Witness ==
    \E p \in Pids :
        /\ pc[p] = "done" /\ result[p] = "error" /\ exc[p] = "OperationalError"
        /\ op[p].kind = "lock" /\ success[p] = "none"

\* C9 as stated -- Backoff bound: an operation that always raises the
\* transient error is invoked exactly 9 times before the error propagates.
C9_NineAttempts ==
    \A p \in Pids : result[p] = "error" => calls[p] = 9

\* C9 amended -- the operation is invoked exactly 10 times (the initial
\* attempt plus 9 retries, after 9 sleeps) before the error propagates, and
\* never more often.
C9_TenAttempts ==
    \A p \in Pids :
        /\ calls[p] <= 10
        /\ result[p] = "error" =>
              (calls[p] = 10 /\ failures[p] = 10 /\ Len(sleeps[p]) = 9)

\* unlock has propagated the store's error.
C9_Witness ==
    \E p \in Pids :
        op[p].kind = "unlock" /\ pc[p] = "done" /\ result[p] = "error"

\* C10 -- Doubling schedule: the first sleep is 0.1 s (one tenth), every
\* later sleep is exactly twice the one before it, there is one sleep per
\* transient failure that was retried, none when the first attempt succeeds,
\* and a call that returns after k transient failures has slept k times.
C10_DoublingSchedule ==
    \A p \in Pids :
        /\ \A i \in 1..Len(sleeps[p]) :
              sleeps[p][i] = IF i = 1 THEN 1 ELSE 2 * sleeps[p][i - 1]
        /\ \A i \in 1..Len(sleeps[p]) : \A j \in i..Len(sleeps[p]) :
              sleeps[p][i] <= sleeps[p][j]
        /\ failures[p] = 0 => sleeps[p] = <<>>
        /\ (pc[p] = "done" /\ result[p] # "error") => Len(sleeps[p]) = failures[p]

\* try_lock has returned true after three transient failures and the sleeps
\* 0.1 s, 0.2 s, 0.4 s.
C10_Witness ==
    \E p \in Pids :
        /\ op[p].kind = "try_lock" /\ pc[p] = "done" /\ result[p] = "true"
        /\ failures[p] = 3 /\ sleeps[p] = <<1, 2, 4>>

\* The step in which the DELETE of clear_locks called by p is executed.
SweepStep(p) == pc[p] = "sweep" /\ pc'[p] = "done"

\* Process q holds the result true of a try_lock whose rows it inserted.
JustGranted(q) ==
    op[q].kind = "try_lock" /\ pc[q] = "done" /\ result[q] = "true"

\* C11 -- Idempotent sweep: from any store state, the DELETE of clear_locks(0)
\* completes and leaves the table empty, whatever the processor, path, pid
\* and time of the rows; this includes a sweep of an already empty table.
C11_IdempotentSweep ==
    [][\A p \in Pids :
          SweepStep(p) /\ op[p].age = 0 => store' = {} /\ result'[p] = "ok"]_vars

\* A clear_locks(0) has completed after a try_lock was granted, and the rows
\* of that grant are gone.
C11_Witness ==
    \E p, q \in Pids :
        /\ op[p].kind = "clear_locks" /\ op[p].age = 0
        /\ pc[p] = "done" /\ result[p] = "ok"
        /\ JustGranted(q) /\ inserted[q] # {}
        /\ store = {}

\* C12 -- Age-bounded sweep: the DELETE of clear_locks(age), age > 0, removes
\* exactly the rows whose recorded time lies more than age seconds before
\* the clock value the call has read; every other row is unchanged and its
\* pair is still refused to try_lock.
C12_AgeBoundedSweep ==
    [][\A p \in Pids :
          SweepStep(p) /\ op[p].age > 0 =>
              /\ store' = {r \in store :
                              ~(stamp[p][1] - r.time > op[p].age * Second)}
              /\ \A r \in store :
                    stamp[p][1] - r.time < op[p].age * Second =>
                        r \in store' /\ Conflict(store', r.path, r.processor)]_vars

\* A clear_locks(age > 0) has completed; of the rows of one granted try_lock
\* the old one is gone and the young one is still there.
C12_Witness ==
    \E p, q \in Pids :
        /\ op[p].kind = "clear_locks" /\ op[p].age > 0
        /\ pc[p] = "done" /\ result[p] = "ok"
        /\ JustGranted(q)
        /\ \E x \in inserted[q] : ~Conflict(store, x, op[q].processor)
        /\ \E r \in store :
              /\ r.pid = q /\ r.path \in inserted[q]
              /\ stamp[p][1] - r.time <= op[p].age * Second

\* Process q is inside a lock scope that acquired the pair of p's call: its
\* body runs (or makes a call of its own), or its unlock has not executed
\* its DELETE yet.
InAcquiredScope(q, rq) ==
    LET f == IF scope[q] = NoScope
             THEN [op |-> op[q], success |-> success[q]] ELSE scope[q]
    IN  /\ f.op.kind = "lock" /\ f.op.processor = rq.processor
        /\ f.op.paths = rq.paths /\ f.success = "true"
        /\ (scope[q] # NoScope \/ pc[q] \in {"body", "delete"})

\* The step in which lock of p yields `value` to its body.
YieldStep(p, value) ==
    pc[p] = "insert" /\ pc'[p] = "body" /\ success'[p] = value

\* C13 -- Two-process scenario: of the processes that call lock for the same
\* processor and single path, never two are inside the scope with true; a
\* lock yields false exactly when the pair is held (by a scope that acquired
\* it or by a try_lock that was not unlocked), so of two concurrent callers
\* on a free pair one observes true and the other false; a try_lock the body
\* makes for its own pair returns false; and the unlock of the winner's
\* scope frees the pair, so that a later lock by either process observes
\* true.
C13_TwoProcessScenario ==
    /\ [](\A p, q \in Pids :
             /\ (p # q /\ pc[p] = "body" /\ success[p] = "true")
                   => ~InAcquiredScope(q, op[p])
             /\ InAcquiredScope(q, op[p]) => Held(op[p].processor, op[p].paths[1]))
    /\ [][\A p \in Pids :
             /\ YieldStep(p, "false") => Held(op[p].processor, op[p].paths[1])
             /\ YieldStep(p, "true") =>
                   /\ ~Held(op[p].processor, op[p].paths[1])
                   /\ \A q \in Pids : ~InAcquiredScope(q, op[p])
             /\ (InAcquiredScope(p, op[p]) /\ pc[p] = "insert" /\ pc'[p] = "done")
                   => result'[p] = "false"
             /\ (InAcquiredScope(p, op[p]) /\ DeleteStep(p))
                   => /\ ~Held(op[p].processor, op[p].paths[1])'
                      /\ ~Conflict(store', op[p].paths[1], op[p].processor)]_vars

\* Two processes are inside lock scopes for the same pair, one with true and
\* one with false, and the one with true has called try_lock for the pair
\* inside its body and was refused.
C13_Witness ==
    \E p, q \in Pids :
        /\ p # q
        /\ scope[p] # NoScope /\ scope[p].success = "true"
        /\ scope[p].op = op[q] /\ op[p].paths = op[q].paths
        /\ op[p].processor = op[q].processor
        /\ pc[p] = "done" /\ result[p] = "false"
        /\ pc[q] = "body" /\ success[q] = "false" /\ op[q].kind = "lock"

\* Process q is inside a FileMutex.lock scope on `path` that was yielded true.
InFileScope(q, path) ==
    /\ provider[q] = "FileMutex" /\ pc[q] = "body"
    /\ success[q] = "true" /\ op[q].paths = <<path>>

\* The step in which FileMutex.lock of p yields `value` to its body.
FileYieldStep(p, value) ==
    pc[p] \in {"acquire", "blocked"} /\ pc'[p] = "body" /\ success'[p] = value

\* The step in which the body of the FileMutex.lock scope of p ends.
FileExitStep(p) ==
    provider[p] = "FileMutex" /\ pc[p] = "body" /\ pc'[p] = "done"

\* C14 -- FileMutex rejects every request whose number of paths is not one:
\* entering the scope raises RuntimeError, no OS lock is attempted or taken,
\* and the body is never entered; the OS locks held are on the single path
\* of their holder's request.
C14_RejectsMultiPath ==
    /\ [][\A p \in Pids :
             /\ provider[p] = "FileMutex" /\ pc[p] = "enter"
             /\ Len(op[p].paths) # 1 /\ pc'[p] # "enter"
             => /\ pc'[p] = "done" /\ result'[p] = "RuntimeError"
                /\ fileLocks' = fileLocks]_vars
    /\ [](\A p \in Pids :
             provider[p] = "FileMutex" /\ pc[p] \in {"acquire", "blocked", "body"}
                => Len(op[p].paths) = 1)
    /\ [](\A l \in fileLocks : op[l.pid].paths = <<l.path>>)

\* FileMutex.lock was called with two paths (and with none) and raised the
\* usage error.
C14_Witness ==
    \E p, q \in Pids :
        /\ provider[p] = "FileMutex" /\ provider[q] = "FileMutex"
        /\ pc[p] = "done" /\ result[p] = "RuntimeError" /\ Len(op[p].paths) = 2
        /\ pc[q] = "done" /\ result[q] = "RuntimeError" /\ Len(op[q].paths) = 0
        /\ fileLocks = {}

\* C15 -- FileMutex single-path exclusion: no two callers are inside scopes
\* on the same path that were both yielded true; a lock called while
\* another caller is inside a scope on the path that was yielded true is
\* answered by yielding false, and true is yielded only when no other
\* caller is inside such a scope; the exit of a scope that was yielded false
\* changes no OS lock; the exit of a scope that was yielded true (normal or
\* by an exception of the body) leaves the path unlocked.
C15_SinglePathExclusion ==
    /\ [](\A p, q \in Pids, x \in Paths :
             InFileScope(p, x) /\ InFileScope(q, x) => p = q)
    /\ [][\A p \in Pids :
             /\ (/\ pc[p] = "acquire" /\ pc'[p] # "acquire"
                 /\ \E q \in Pids \ {p} : InFileScope(q, op[p].paths[1]))
                   => FileYieldStep(p, "false")
             /\ FileYieldStep(p, "true") =>
                   \A q \in Pids \ {p} : ~InFileScope(q, op[p].paths[1])
             /\ FileExitStep(p) /\ success[p] = "false" => fileLocks' = fileLocks
             /\ FileExitStep(p) /\ success[p] = "true" =>
                   ~FileLocked(fileLocks', op[p].paths[1])]_vars

\* C16 -- Interchangeable providers: each of DatabaseMutex,
\* FileMutex and DummyMutex offers try_lock, unlock and lock, so no call of
\* one of these on a provider fails for want of the method.
C16_SameInterface == \A p \in Pids : result[p] # "AttributeError"

\* The row was inserted by a process that has terminated.
Stale(r) == pc[r.pid] = "dead"

\* C17 -- Store uniqueness: in every state reached by any interleaving of
\* try_lock, unlock, clear_locks and process deaths, the table holds at most
\* one row for each (path, processor).
C17_StoreUniqueness ==
    \A r1, r2 \in store :
        r1.path = r2.path /\ r1.processor = r2.processor => r1 = r2

\* A try_lock was refused on a pair whose row belongs to a dead process,
\* while the table holds a row of the caller as well.
C17_Witness ==
    \E p \in Pids, r1, r2 \in store :
        /\ op[p].kind = "try_lock" /\ pc[p] = "done" /\ result[p] = "false"
        /\ Stale(r1) /\ r1.processor = op[p].processor
        /\ r1.path \in Range(op[p].paths)
        /\ r2.pid = p

\* C18 -- Stale locks persist until swept: a row whose process has
\* terminated stays in the table through every step that is not the DELETE
\* of a clear_locks (unlock by another pid included), and no try_lock that
\* was called after the termination and whose paths contain its pair returns
\* true while it is there.
C18_StalePersists ==
    [][\A r \in store :
          Stale(r) =>
             /\ r \in store' \/ \E p \in Pids : SweepStep(p)
             /\ \A p \in Pids :
                   /\ r.pid \in deadAtCall[p]
                   /\ r.processor = op[p].processor
                   /\ r.path \in Range(op[p].paths)
                   => ~GrantStep(p)]_vars

\* The granted row of a dead process is in the table after another process
\* has executed unlock for its processor and path.
C18_Witness ==
    \E p \in Pids, r \in store :
        /\ Stale(r)
        /\ [pid |-> r.pid, processor |-> r.processor, path |-> r.path] \in granted
        /\ op[p].kind = "unlock" /\ pc[p] = "done" /\ result[p] = "ok"
        /\ r.processor = op[p].processor /\ r.path \in Range(op[p].paths)

\* C19 -- Frame of unlock: the DELETE of unlock(processor, paths) called by
\* process p removes exactly the rows with that processor, a path in paths
\* and pid p; every other row is unchanged and no row is added; when no such
\* row exists the call completes and the table is unchanged.
C19_UnlockFrame ==
    [][\A p \in Pids :
          DeleteStep(p) =>
             LET mine == {r \in store :
                            /\ r.processor = op[p].processor
                            /\ r.path \in Range(op[p].paths)
                            /\ r.pid = p}
             IN  /\ store' = store \ mine
                 /\ pc'[p] = "done"
                 /\ op[p].kind = "unlock" => result'[p] = "ok"
                 /\ mine = {} => store' = store]_vars

\* unlock has been executed by a process that holds none of the rows it
\* names; the table still holds a row of that pair under another pid and a
\* row of the caller for the same path under another processor.
C19_Witness ==
    \E p \in Pids, r1, r2 \in store :
        /\ op[p].kind = "unlock" /\ pc[p] = "done" /\ result[p] = "ok"
        /\ r1.processor = op[p].processor /\ r1.path \in Range(op[p].paths)
        /\ r1.pid # p
        /\ r2.processor # op[p].processor /\ r2.path \in Range(op[p].paths)
        /\ r2.pid = p

\* The step in which the insert of try_lock called by p fails on the
\* uniqueness constraint.
RefuseStep(p) ==
    pc[p] = "insert" /\ exc[p] # "IntegrityError" /\ exc'[p] = "IntegrityError"

\* C20 -- Independence across processors: an insert of try_lock(q, paths) is
\* refused only when the table holds a row with processor q for the path
\* being inserted; rows of other processors never refuse it, and two
\* processors can hold the same path at once.
C20_ProcessorIndependence ==
    [][\A p \in Pids :
          /\ RefuseStep(p) =>
                \E r \in store :
                   r.processor = op[p].processor /\ r.path = op[p].paths[idx[p]]
          /\ (/\ pc[p] = "insert" /\ pc'[p] # "insert"
              /\ \A r \in store :
                    r.path \in Range(op[p].paths) => r.processor # op[p].processor)
             => ~RefuseStep(p)]_vars

\* Two processes hold the same path for different processors, the second
\* grant made while the first row was in the table.
C20_Witness ==
    \E g1, g2 \in granted :
        /\ g1.path = g2.path /\ g1.processor # g2.processor
        /\ g1.pid # g2.pid
        /\ JustGranted(g2.pid) /\ op[g2.pid].processor = g2.processor
        /\ \E r \in store : r.pid = g1.pid /\ r.path = g1.path
                              /\ r.processor = g1.processor
====
